---- MODULE Spec2Model ----
(***************************************************************************)
(* Model of the Latitude dynamic inventory plugin                          *)
(* (src/latitude_inventory.py): InventoryModule.parse, get_servers,        *)
(* add_sever and get_hosts_group, run against an inventory (hosts, groups, *)
(* group membership, host variables) and a paginated HTTP API.             *)
(*                                                                         *)
(* Strings are sequences of one-character strings; Python values carry a   *)
(* type tag so that a list never compares equal to a string.               *)
(***************************************************************************)
EXTENDS Integers, Sequences, FiniteSets, TLC

VARIABLES
    cfg,          \* the options get_option() answers for this parse
    api,          \* the API: the response it gives to page[number] = k
    pc,           \* position of the parse
    page,         \* get_servers: the page cursor
    all_servers,  \* get_servers: the accumulator, then parse's `servers`
    requests,     \* history: page[number] of every GET issued, in order
    idx,          \* parse: index of the record the for loop is at
    hostname,     \* add_sever: local `hostname`
    group,        \* add_sever: local `group`
    inv_hosts,    \* inventory: registered hosts
    inv_groups,   \* inventory: registered groups
    inv_members,  \* inventory: <<group, host>> memberships
    inv_vars,     \* inventory: <<host, variable name, value>>
    trace,        \* history: every step add_sever took, in order
    err           \* where the parse raised ("" while it has not)

vars == <<cfg, api, pc, page, all_servers, requests, idx, hostname, group,
          inv_hosts, inv_groups, inv_members, inv_vars, trace, err>>

----------------------------------------------------------------------------
(* Bounds *)

MaxHostLen == 3      \* longest hostname of the single-record specification
MaxPages == 2        \* pages the API describes explicitly (later ones are empty)
MaxRecords == 2      \* records the API holds over all its pages

----------------------------------------------------------------------------
(* Python values *)

PyNone == [t |-> "none", v |-> <<>>]
PyStr(s) == [t |-> "str", v |-> s]
PyList(l) == [t |-> "list", v |-> l]

\* Python ==: values of different types (list, str, None) are never equal.
PyEq(a, b) == a.t = b.t /\ a.v = b.v

\* Python truthiness: None, "" and [] are false.
Truthy(x) == x.t # "none" /\ Len(x.v) > 0

Sep == "-"

\* str.split("-")
RECURSIVE Split(_)
Split(s) ==
    IF \A i \in 1..Len(s) : s[i] # Sep
    THEN <<s>>
    ELSE LET i == CHOOSE k \in 1..Len(s) :
                      s[k] = Sep /\ \A j \in 1..(k - 1) : s[j] # Sep
         IN  <<SubSeq(s, 1, i - 1)>> \o Split(SubSeq(s, i + 1, Len(s)))

----------------------------------------------------------------------------
(* Inputs *)

Alphabet == {"p", "s", Sep}

RECURSIVE StringsOfLen(_)
StringsOfLen(n) ==
    IF n = 0 THEN {<<>>}
    ELSE {Append(s, c) : s \in StringsOfLen(n - 1), c \in Alphabet}

\* The inventory's add_host and add_group belong to the framework; they are
\* taken to accept the names given to them, so the hostnames considered are
\* the non-empty ones whose second component, if there is one, is non-empty.
Accepted(h) ==
    /\ h # <<>>
    /\ Len(Split(h)) >= 2 => Split(h)[2] # <<>>

\* every accepted hostname over the alphabet, up to MaxHostLen characters
Hostnames == {h \in UNION {StringsOfLen(n) : n \in 1..MaxHostLen} : Accepted(h)}

web_prod_01 == <<"w", "e", "b", "-", "p", "r", "o", "d", "-", "0", "1">>
db_staging_1 == <<"d", "b", "-", "s", "t", "a", "g", "i", "n", "g", "-", "1">>
server1 == <<"s", "e", "r", "v", "e", "r", "1">>

\* the hostnames of the whole-parse specification
SampleHostnames == {web_prod_01, db_staging_1, server1}

Absent == [has |-> FALSE, val |-> PyNone]
Present(x) == [has |-> TRUE, val |-> x]

ip1 == <<"1">>

\* a server record: the attributes add_sever reads, each present or absent
ServerRecord(h, ip) == [hostname |-> h, primary_ipv4 |-> ip]

RecordsOver(names) ==
    {ServerRecord(Present(PyStr(n)), Present(PyStr(ip1))) : n \in names}
    \cup {ServerRecord(Present(PyStr(n)), Absent) : n \in names}
    \cup {ServerRecord(Absent, Present(PyStr(ip1)))}

SampleRecords ==
    {ServerRecord(Present(PyStr(n)), Present(PyStr(ip1))) : n \in SampleHostnames}
    \cup {ServerRecord(Present(PyStr(web_prod_01)), Absent),
          ServerRecord(Absent, Present(PyStr(ip1)))}

prod == <<"p", "r", "o", "d">>

\* include_tags / exclude_tags: unset, or a list of strings
TagOptions ==
    {PyNone, PyList(<<>>), PyList(<<prod>>), PyList(<<<<"p">>>>),
     PyList(<<<<"p">>, <<"s">>>>)}

ConfigsOver(tags) ==
    [include_tags : tags, exclude_tags : tags, strict : BOOLEAN]

\* the options of the single-record specification
Configs == ConfigsOver(TagOptions)

\* the options of the whole-parse specification
SampleConfigs == ConfigsOver({PyNone, PyList(<<prod>>)})

\* one HTTP response: its status and the `data` list of its body
Response(ok, d) == [ok |-> ok, data |-> d]

SeqsUpTo(S, n) == UNION {[1..k -> S] : k \in 0..n}

\* a non-success status, or a success with up to n records
ResponsesUpTo(n) ==
    {Response(FALSE, <<>>)}
    \cup {Response(TRUE, d) : d \in SeqsUpTo(SampleRecords, n)}

\* the APIs of at most np described pages holding at most nr records in all
RECURSIVE ApisWithin(_, _)
ApisWithin(np, nr) ==
    IF np = 0 THEN {<<>>}
    ELSE {<<>>} \cup
         UNION {{<<r>> \o rest : rest \in ApisWithin(np - 1, nr - Len(r.data))} :
                    r \in ResponsesUpTo(nr)}

Apis == ApisWithin(MaxPages, MaxRecords)

\* the response to GET ...?page[number]=k; pages past the described ones are empty
ApiResponse(a, k) == IF k \in 1..Len(a) THEN a[k] ELSE Response(TRUE, <<>>)

----------------------------------------------------------------------------
(* Initial states *)

EmptyInventory ==
    /\ inv_hosts = {}
    /\ inv_groups = {}
    /\ inv_members = {}
    /\ inv_vars = {}

\* parse() has read its configuration and is about to call get_servers()
Init ==
    /\ cfg \in SampleConfigs
    /\ api \in Apis
    /\ pc = "request"
    /\ page = 1
    /\ all_servers = <<>>
    /\ requests = <<>>
    /\ idx = 0
    /\ hostname = <<>>
    /\ group = PyNone
    /\ EmptyInventory
    /\ trace = <<>>
    /\ err = ""

\* get_servers() has returned one record (one page, then the empty page)
InitRecord ==
    /\ cfg \in Configs
    /\ \E r \in RecordsOver(Hostnames \cup SampleHostnames) :
          /\ api = <<Response(TRUE, <<r>>)>>
          /\ all_servers = <<r>>
    /\ pc = "loop"
    /\ page = 2
    /\ requests = <<1, 2>>
    /\ idx = 0
    /\ hostname = <<>>
    /\ group = PyNone
    /\ EmptyInventory
    /\ trace = <<>>
    /\ err = ""

----------------------------------------------------------------------------
(* get_servers *)

\* faulty variant: the status of the response is never looked at
NeverRaisesForStatus(r) == FALSE

\* response.raise_for_status(): raises on a non-success status
RaisesForStatus(r) == ~r.ok

\* faulty variant: all_servers = servers, the earlier pages are dropped
AccumulateLastPage(all, servers) == servers

\* all_servers += servers
Accumulate(all, servers) == all \o servers

\* page += 1
NextPage(p) == p + 1

\* requests.get(url, headers, params with page[number] = page, timeout=10)
SendRequest ==
    /\ pc = "request"
    /\ requests' = Append(requests, page)
    /\ pc' = "response"
    /\ UNCHANGED <<cfg, api, page, all_servers, idx, hostname, group,
                   inv_hosts, inv_groups, inv_members, inv_vars, trace, err>>

\* the response arrives: raise_for_status, then the empty-page test
ReceiveResponse ==
    /\ pc = "response"
    /\ LET r == ApiResponse(api, page)
           servers == r.data
       IN  IF RaisesForStatus(r)
           THEN /\ pc' = "error"
                /\ err' = "http"
                /\ UNCHANGED <<page, all_servers>>
           ELSE IF servers = <<>>
           THEN /\ pc' = "loop"
                /\ UNCHANGED <<page, all_servers, err>>
           ELSE /\ all_servers' = Accumulate(all_servers, servers)
                /\ page' = NextPage(page)
                /\ pc' = "request"
                /\ UNCHANGED err
    /\ UNCHANGED <<cfg, api, requests, idx, hostname, group,
                   inv_hosts, inv_groups, inv_members, inv_vars, trace>>

----------------------------------------------------------------------------
(* get_hosts_group *)

\* faulty variant: the group candidate is never registered
add_group_skipped(groups, g) == groups

\* self.inventory.add_group(group): registering a known group changes nothing
add_group(groups, g) == groups \cup {g}

\* faulty variant: the group is taken from index 0 of the split
get_hosts_group_first(h, c, groups) ==
    LET parts == Split(h)
        found == Len(parts) >= 2
        g == IF found THEN PyStr(parts[1]) ELSE PyNone
        groups2 == IF found THEN add_group(groups, parts[1]) ELSE groups
    IN  [groups |-> groups2,
         ret |-> IF Truthy(c.include_tags) /\ ~PyEq(c.include_tags, g)
                 THEN PyNone
                 ELSE IF Truthy(c.exclude_tags) /\ PyEq(c.exclude_tags, g)
                 THEN PyNone
                 ELSE g]

\* faulty variant: include_tags is tested by membership, `group not in include_tags`
get_hosts_group_member(h, c, groups) ==
    LET parts == Split(h)
        found == Len(parts) >= 2
        g == IF found THEN PyStr(parts[2]) ELSE PyNone
        groups2 == IF found THEN add_group(groups, parts[2]) ELSE groups
        listed == /\ found
                  /\ \E k \in 1..Len(c.include_tags.v) :
                        c.include_tags.v[k] = parts[2]
    IN  [groups |-> groups2,
         ret |-> IF Truthy(c.include_tags) /\ ~listed
                 THEN PyNone
                 ELSE IF Truthy(c.exclude_tags) /\ PyEq(c.exclude_tags, g)
                 THEN PyNone
                 ELSE g]

\* The result of get_hosts_group and the registered groups it leaves.
\* hostname.split("-")[1] raises IndexError, suppressed, when there is no
\* second component: add_group is then skipped and group stays None.
get_hosts_group(h, c, groups) ==
    LET parts == Split(h)
        found == Len(parts) >= 2
        g == IF found THEN PyStr(parts[2]) ELSE PyNone
        groups2 == IF found THEN add_group(groups, parts[2]) ELSE groups
        include_tags == c.include_tags
        exclude_tags == c.exclude_tags
    IN  [groups |-> groups2,
         ret |-> IF Truthy(include_tags) /\ ~PyEq(include_tags, g)
                 THEN PyNone
                 ELSE IF Truthy(exclude_tags) /\ PyEq(exclude_tags, g)
                 THEN PyNone
                 ELSE g]

----------------------------------------------------------------------------
(* add_sever *)

Stages ==
    <<"classify", "add_host", "set_variable", "compose", "groups",
      "keyed_groups">>

\* the statement add_sever runs after stage s ("loop": back to parse's for)
NextStage(s) ==
    LET k == CHOOSE i \in 1..Len(Stages) : Stages[i] = s
    IN  IF k = Len(Stages) THEN "loop" ELSE Stages[k + 1]

\* one entry of the history of steps
Step(i, stage, strict, undef, raised) ==
    [i |-> i, stage |-> stage, strict |-> strict, undef |-> undef,
     raised |-> raised]

\* faulty variant: composition follows the user's strict option
ComposeStrictFromOption(c) == c.strict

\* the strict argument passed to _set_composite_vars
ComposeStrict(c) == TRUE

\* the strict argument passed to _add_host_to_composed_groups
GroupsStrict(c) == c.strict

\* the strict argument passed to _add_host_to_keyed_groups
KeyedStrict(c) == c.strict

\* "Determines if composed variables or groups using nonexistent variables
\* is an error": a template that meets an undefined variable raises only
\* when the call is strict.
Raises(strict, undef) == strict /\ undef

\* self.inventory.set_variable(hostname, var_name, var_value)
set_variable(vs, h, n, x) ==
    {t \in vs : ~(t[1] = h /\ t[2] = n)} \cup {<<h, n, x>>}

\* faulty variant: a record without hostname is skipped and the loop goes on
NextServerSkipping ==
    /\ pc = "loop"
    /\ IF idx = Len(all_servers)
       THEN /\ pc' = "done"
            /\ UNCHANGED <<idx, hostname>>
       ELSE /\ idx' = idx + 1
            /\ IF all_servers[idx + 1].hostname.has
               THEN /\ hostname' = all_servers[idx + 1].hostname.val.v
                    /\ pc' = "classify"
               ELSE /\ pc' = "loop"
                    /\ UNCHANGED hostname
    /\ UNCHANGED <<cfg, api, page, all_servers, requests, group, inv_hosts,
                   inv_groups, inv_members, inv_vars, trace, err>>

\* parse's for loop: the next record, and add_sever up to `hostname = ...`
NextServer ==
    /\ pc = "loop"
    /\ IF idx = Len(all_servers)
       THEN /\ pc' = "done"
            /\ UNCHANGED <<idx, hostname, err>>
       ELSE /\ idx' = idx + 1
            /\ LET server_attributes == all_servers[idx + 1]
               IN  IF server_attributes.hostname.has
                   THEN /\ hostname' = server_attributes.hostname.val.v
                        /\ pc' = Stages[1]
                        /\ UNCHANGED err
                   ELSE /\ pc' = "error"
                        /\ err' = "hostname"
                        /\ UNCHANGED hostname
    /\ UNCHANGED <<cfg, api, page, all_servers, requests, group,
                   inv_hosts, inv_groups, inv_members, inv_vars, trace>>

\* group = self.get_hosts_group(hostname)
Classify ==
    /\ pc = "classify"
    /\ LET r == get_hosts_group(hostname, cfg, inv_groups)
       IN  /\ group' = r.ret
           /\ inv_groups' = r.groups
    /\ trace' = Append(trace, Step(idx, "classify", FALSE, FALSE, FALSE))
    /\ pc' = NextStage("classify")
    /\ UNCHANGED <<cfg, api, page, all_servers, requests, idx, hostname,
                   inv_hosts, inv_members, inv_vars, err>>

\* faulty variant: add_host is called only for a host that has a group
AddHostIfGrouped ==
    /\ pc = "add_host"
    /\ IF group.t = "none"
       THEN UNCHANGED <<inv_hosts, inv_members, trace>>
       ELSE /\ inv_hosts' = inv_hosts \cup {hostname}
            /\ inv_members' = inv_members \cup {<<group.v, hostname>>}
            /\ trace' = Append(trace, [i |-> idx, stage |-> "add_host",
                                       strict |-> FALSE, undef |-> FALSE,
                                       raised |-> FALSE])
    /\ pc' = "set_variable"
    /\ UNCHANGED <<cfg, api, page, all_servers, requests, idx, hostname,
                   group, inv_groups, inv_vars, err>>

\* self.inventory.add_host(hostname, group=group)
AddHost ==
    /\ pc = "add_host"
    /\ inv_hosts' = inv_hosts \cup {hostname}
    /\ inv_members' = IF group.t = "none"
                      THEN inv_members
                      ELSE inv_members \cup {<<group.v, hostname>>}
    /\ trace' = Append(trace, Step(idx, "add_host", FALSE, FALSE, FALSE))
    /\ pc' = NextStage("add_host")
    /\ UNCHANGED <<cfg, api, page, all_servers, requests, idx, hostname,
                   group, inv_groups, inv_vars, err>>

\* host_vars = {...}; for ...: self.inventory.set_variable(...)
\* server_attributes["primary_ipv4"] raises KeyError when the key is absent.
SetBaseVars ==
    /\ pc = "set_variable"
    /\ LET server_attributes == all_servers[idx]
           raised == ~server_attributes.primary_ipv4.has
       IN  /\ trace' = Append(trace,
                              Step(idx, "set_variable", FALSE, FALSE, raised))
           /\ IF raised
              THEN /\ pc' = "error"
                   /\ err' = "primary_ipv4"
                   /\ UNCHANGED inv_vars
              ELSE /\ inv_vars' =
                        set_variable(
                            set_variable(
                                set_variable(inv_vars, hostname,
                                             "public_ip_address",
                                             server_attributes.primary_ipv4.val),
                                hostname, "server_name", PyStr(hostname)),
                            hostname, "group", group)
                   /\ pc' = NextStage("set_variable")
                   /\ UNCHANGED err
    /\ UNCHANGED <<cfg, api, page, all_servers, requests, idx, hostname,
                   group, inv_hosts, inv_groups, inv_members>>

\* A call into the framework's template services. What the user's
\* compose / groups / keyed_groups expressions add to the inventory is not
\* modelled; whether they meet an undefined variable is the caller's
\* environment, chosen freely.
External(stage, strict) ==
    /\ pc = stage
    /\ \E undef \in BOOLEAN :
          LET raised == Raises(strict, undef)
          IN  /\ trace' = Append(trace, Step(idx, stage, strict, undef, raised))
              /\ IF raised
                 THEN /\ pc' = "error"
                      /\ err' = stage
                 ELSE /\ pc' = NextStage(stage)
                      /\ UNCHANGED err
    /\ UNCHANGED <<cfg, api, page, all_servers, requests, idx, hostname,
                   group, inv_hosts, inv_groups, inv_members, inv_vars>>

\* self._set_composite_vars(compose, host_vars, hostname, strict=True)
Compose == External("compose", ComposeStrict(cfg))

\* self._add_host_to_composed_groups(groups, host_vars, hostname, strict=strict)
ComposedGroups == External("groups", GroupsStrict(cfg))

\* self._add_host_to_keyed_groups(keyed_groups, host_vars, hostname, strict=strict)
KeyedGroups == External("keyed_groups", KeyedStrict(cfg))

----------------------------------------------------------------------------
(* Specifications *)

Fetch == SendRequest \/ ReceiveResponse

Process ==
    \/ NextServer
    \/ Classify
    \/ AddHost
    \/ SetBaseVars
    \/ Compose
    \/ ComposedGroups
    \/ KeyedGroups

Next == Fetch \/ Process

\* a whole parse: get_servers, then add_sever for every record
Spec == Init /\ [][Next]_vars

\* add_sever on one fetched record with any hostname up to MaxHostLen
SpecRecord == InitRecord /\ [][Process]_vars

----------------------------------------------------------------------------
(* Vocabulary of the properties *)

Fetching == pc \in {"request", "response"}

\* the concatenation of the data of pages 1..n
RECURSIVE PagesConcat(_, _)
PagesConcat(a, n) ==
    IF n = 0 THEN <<>> ELSE PagesConcat(a, n - 1) \o ApiResponse(a, n).data

\* pages 1..n answer successfully with records
NonEmptyPages(a, n) ==
    \A k \in 1..n : ApiResponse(a, k).ok /\ ApiResponse(a, k).data # <<>>

\* pages 1..n are non-empty and page n + 1 is the empty page
EndsAfter(a, n) ==
    /\ NonEmptyPages(a, n)
    /\ ApiResponse(a, n + 1).ok
    /\ ApiResponse(a, n + 1).data = <<>>

\* pages 1..k-1 are non-empty and page k answers a non-success status
FailsAt(a, k) == NonEmptyPages(a, k - 1) /\ ~ApiResponse(a, k).ok

Counting(n) == [i \in 1..n |-> i]

HasDash(h) == \E i \in 1..Len(h) : h[i] = Sep

\* g is what stands between the first "-" of h and the next one (or the end)
IsSecondComponent(h, g) ==
    \E i \in 1..Len(h) :
        /\ h[i] = Sep
        /\ \A k \in 1..(i - 1) : h[k] # Sep
        /\ \E j \in i..Len(h) :
              /\ g = SubSeq(h, i + 1, j)
              /\ ~HasDash(g)
              /\ j = Len(h) \/ h[j + 1] = Sep

HasVar(h, n) == \E t \in inv_vars : t[1] = h /\ t[2] = n

VarIs(h, n, x) == <<h, n, x>> \in inv_vars

NoMembership(h) == \A m \in inv_members : m[2] # h

StepsOf(i, stage) ==
    {k \in 1..Len(trace) : trace[k].i = i /\ trace[k].stage = stage}

----------------------------------------------------------------------------
(* C1 *)

\* C1: whenever the API answers pages 1..n with records and page n + 1 with
\* the empty list, get_servers issues the requests page[number] = 1, 2, ...,
\* n + 1 in that order, each one only after the response to the one before
\* it was consumed, never raises, and returns exactly pages 1..n
\* concatenated in page order.
C1_FetchAllPages ==
    \A n \in 0..Len(api) :
        EndsAfter(api, n) =>
            /\ err # "http"
            /\ Len(requests) <= n + 1
            /\ requests = Counting(Len(requests))
            /\ pc = "request" =>
                  /\ Len(requests) = page - 1
                  /\ all_servers = PagesConcat(api, page - 1)
            /\ pc = "response" =>
                  /\ Len(requests) = page
                  /\ all_servers = PagesConcat(api, page - 1)
            /\ ~Fetching =>
                  /\ requests = Counting(n + 1)
                  /\ all_servers = PagesConcat(api, n)

\* two pages of one record each, different records, then the empty page
C1_Witness ==
    /\ EndsAfter(api, 2)
    /\ pc = "loop"
    /\ Len(all_servers) = 2
    /\ all_servers[1] # all_servers[2]
    /\ requests = <<1, 2, 3>>

----------------------------------------------------------------------------
(* C2 *)

\* C2: when page k answers a non-success status (pages before it holding
\* records), the parse raises at request k: requests 1..k were issued and
\* none after, add_sever never runs, and the inventory holds no host, group,
\* membership or variable. The fetch phase never touches the inventory.
C2_HttpErrorAborts ==
    /\ Fetching => EmptyInventory /\ trace = <<>>
    /\ err = "http" =>
          /\ pc = "error"
          /\ ~ApiResponse(api, page).ok
          /\ requests = Counting(page)
    /\ \A k \in 1..Len(api) :
          FailsAt(api, k) =>
              /\ Fetching \/ (pc = "error" /\ err = "http")
              /\ Len(requests) <= k
              /\ pc = "error" => requests = Counting(k)
              /\ EmptyInventory
              /\ trace = <<>>
              /\ idx = 0

\* page 1 gave a record with a hostname, page 2 a non-success status
C2_Witness ==
    /\ err = "http"
    /\ page = 2
    /\ Len(all_servers) = 1
    /\ all_servers[1].hostname.has

----------------------------------------------------------------------------
(* C3 *)

HostnameOf(i) == all_servers[i].hostname.val.v

\* record j went through add_host and the base variables
Registered(j) ==
    /\ all_servers[j].hostname.has
    /\ HostnameOf(j) \in inv_hosts
    /\ HasVar(HostnameOf(j), "public_ip_address")
    /\ HasVar(HostnameOf(j), "server_name")
    /\ HasVar(HostnameOf(j), "group")

\* C3: a fetched record without `hostname` is never passed: the parse
\* raises when the loop reaches it, no step of add_sever is taken for it or
\* for a later record, and the inventory is then exactly what the records
\* before it registered (their hosts and variables stay, nothing is added).
C3_MissingHostnameAborts ==
    /\ \A i \in 1..Len(all_servers) :
          ~all_servers[i].hostname.has =>
              /\ idx <= i
              /\ \A k \in 1..Len(trace) : trace[k].i < i
              /\ idx = i => pc = "error" /\ err = "hostname"
    /\ err = "hostname" =>
          /\ pc = "error"
          /\ ~all_servers[idx].hostname.has
          /\ \A j \in 1..(idx - 1) : Registered(j)
          /\ inv_hosts = {HostnameOf(j) : j \in 1..(idx - 1)}
          /\ \A t \in inv_vars : t[1] \in inv_hosts
          /\ \A m \in inv_members : m[1] \in inv_groups /\ m[2] \in inv_hosts

\* the second record has no hostname; the first one stays registered
C3_Witness ==
    /\ err = "hostname"
    /\ idx = 2
    /\ inv_hosts = {web_prod_01}
    /\ VarIs(web_prod_01, "server_name", PyStr(web_prod_01))
    /\ <<prod, web_prod_01>> \in inv_members

----------------------------------------------------------------------------
(* C4 *)

\* C4: when add_host is about to be called with a group that is not None,
\* that group is already registered, and every membership the inventory
\* holds is in a registered group; for every hostname and every setting of
\* include_tags and exclude_tags.
C4_GroupRegisteredBeforeHost ==
    /\ pc = "add_host" /\ group.t # "none" => group.v \in inv_groups
    /\ \A m \in inv_members : m[1] \in inv_groups

C4_Witness ==
    /\ pc = "add_host"
    /\ hostname = <<"s", "-", "p">>
    /\ group = PyStr(<<"p">>)
    /\ inv_groups = {<<"p">>}
    /\ Truthy(cfg.exclude_tags)

----------------------------------------------------------------------------
(* C5 *)

----------------------------------------------------------------------------
(* C6 *)

Unfiltered == ~Truthy(cfg.include_tags) /\ ~Truthy(cfg.exclude_tags)

\* C6: with include_tags and exclude_tags unset, get_hosts_group returns the
\* second "-"-separated component of a hostname that has one, and None for
\* a hostname without "-", which then registers no group.
C6_UnfilteredGroup ==
    Unfiltered /\ pc = "add_host" =>
        IF HasDash(hostname)
        THEN /\ group.t = "str"
             /\ IsSecondComponent(hostname, group.v)
             /\ inv_groups = {group.v}
        ELSE /\ group = PyNone
             /\ inv_groups = {}

\* web-prod-01 gives prod
C6_Witness ==
    /\ Unfiltered
    /\ pc = "add_host"
    /\ hostname = web_prod_01
    /\ group = PyStr(prod)

----------------------------------------------------------------------------
(* C7 *)

\* C7: with a non-empty include_tags list get_hosts_group returns None for
\* every hostname, so no host is put in a group derived from its hostname.
C7_IncludeListDisablesGrouping ==
    Truthy(cfg.include_tags) =>
        /\ trace # <<>> => group = PyNone
        /\ inv_members = {}

\* include_tags = ["prod"], hostname web-prod-01: classified None, ungrouped
C7_Witness ==
    /\ cfg.include_tags = PyList(<<prod>>)
    /\ hostname = web_prod_01
    /\ pc = "done"
    /\ group = PyNone
    /\ prod \in inv_groups
    /\ web_prod_01 \in inv_hosts

----------------------------------------------------------------------------
(* C8 *)

\* C8 (as documented for exclude_tags): after a parse with a non-empty
\* exclude_tags list, no record whose tag (second hostname component) is in
\* the list is a host of the inventory.
C8_ExcludedHostsAbsent ==
    pc = "done" /\ Truthy(cfg.exclude_tags) =>
        \A i \in 1..Len(all_servers) :
            \A k \in 1..Len(cfg.exclude_tags.v) :
                IsSecondComponent(HostnameOf(i), cfg.exclude_tags.v[k])
                    => HostnameOf(i) \notin inv_hosts

----------------------------------------------------------------------------
(* C9 *)

\* C9 (as claimed): a record that has a hostname never fails in the
\* base-variable step, and no host is left in the inventory of a finished
\* or aborted parse without public_ip_address, server_name and group.
C9_OnlyHostnameRequired ==
    /\ err # "primary_ipv4"
    /\ pc \in {"done", "error"} =>
          \A h \in inv_hosts :
              /\ HasVar(h, "public_ip_address")
              /\ HasVar(h, "server_name")
              /\ HasVar(h, "group")

----------------------------------------------------------------------------
(* C10 *)

StageOrder ==
    <<"classify", "add_host", "set_variable", "compose", "groups",
      "keyed_groups">>

StageIndex(s) == CHOOSE k \in 1..Len(StageOrder) : StageOrder[k] = s

====
